---- MODULE Spec2Model ----
(***************************************************************************)
(* Model of registry/manifest.go: the manifest, tags and catalog handlers  *)
(* of the OCI proxy, the store they share (Manifests.manifests) and the    *)
(* mutex that guards it (Manifests.lock).                                  *)
(*                                                                         *)
(* Go strings are sequences of one-character strings, so that              *)
(* strings.Split, strings.Join, strings.Contains, string comparison and    *)
(* strconv.Atoi are computed the way the library computes them.            *)
(***************************************************************************)
EXTENDS Integers, Sequences, FiniteSets, TLC

VARIABLES
    manifests,  \* Manifests.manifests: repo -> tag or digest -> Manifest
    lock,       \* Manifests.lock: 0 when free, else the worker that holds it
    pc,         \* where each worker is in its handler
    req,        \* the request each worker serves, and the handler it went to
    loc,        \* the handler's locals
    resp,       \* what the handler wrote or returned
    calls,      \* the PrepareChart invocations the request has made
    mutated,    \* whether they changed the store
    store0,     \* the store when the request took the lock
    oracle      \* what each of its PrepareChart invocations did

vars == <<manifests, lock, pc, req, loc, resp, calls, mutated, store0, oracle>>

(***************************************************************************)
(* Bounds of the model.                                                    *)
(***************************************************************************)
\* the workers that serve requests concurrently
NumProcs == 2

(***************************************************************************)
(* Strings.                                                                *)
(***************************************************************************)
\* the characters the model uses, in ascending byte order
Alphabet == <<"-", "/", "0", "1", "2", "3", "4", "5", "6", "7", "8", "9", ":", "_",
              "a", "b", "c", "d", "e", "f", "g", "h", "i", "j", "k", "l", "m", "n",
              "o", "p", "q", "r", "s", "t", "u", "v", "w", "x", "y", "z">>

Ord(ch) == CHOOSE i \in 1..Len(Alphabet) : Alphabet[i] = ch

\* Go's < on strings: bytewise lexicographic
RECURSIVE StrLess(_, _)
StrLess(s, t) ==
    IF t = <<>> THEN FALSE
    ELSE IF s = <<>> THEN TRUE
    ELSE IF s[1] # t[1] THEN Ord(s[1]) < Ord(t[1])
    ELSE StrLess(Tail(s), Tail(t))

\* strings.Contains(s, sub)
Contains(s, sub) ==
    \E i \in 1..(Len(s) - Len(sub) + 1) : SubSeq(s, i, i + Len(sub) - 1) = sub

\* strings.Split(s, "/"): one piece more than there are separators
RECURSIVE Split(_)
Split(s) ==
    IF \A i \in 1..Len(s) : s[i] # "/" THEN <<s>>
    ELSE LET i == CHOOSE k \in 1..Len(s) : s[k] = "/" /\ \A j \in 1..(k-1) : s[j] # "/"
         IN  <<SubSeq(s, 1, i - 1)>> \o Split(SubSeq(s, i + 1, Len(s)))

\* strings.Join(parts, "/")
RECURSIVE Join(_)
Join(parts) ==
    IF parts = <<>> THEN <<>>
    ELSE IF Len(parts) = 1 THEN parts[1]
    ELSE parts[1] \o <<"/">> \o Join(Tail(parts))

\* the width of Go's int on a 32-bit platform: math.MaxInt32
MaxInt == 2147483647
MinInt == (-MaxInt) - 1

IsDigit(ch) == ch \in {"0", "1", "2", "3", "4", "5", "6", "7", "8", "9"}
DigitVal(ch) == Ord(ch) - Ord("0")

\* the magnitude of a digit string, saturating: over = 0 when it fits an int,
\* 1 when it is exactly MaxInt + 1, 2 when it is larger
RECURSIVE ParseMag(_, _, _)
ParseMag(digits, acc, over) ==
    IF digits = <<>> THEN [val |-> acc, over |-> over]
    ELSE LET d == DigitVal(digits[1]) IN
         IF over > 0 THEN ParseMag(Tail(digits), acc, 2)
         ELSE IF acc > (MaxInt - d) \div 10
              THEN ParseMag(Tail(digits), MaxInt,
                            IF acc = MaxInt \div 10 /\ d = (MaxInt % 10) + 1 THEN 1 ELSE 2)
              ELSE ParseMag(Tail(digits), acc * 10 + d, 0)

\* strconv.Atoi(s): the value and the error ("nil", "syntax" or "range")
Atoi(s) ==
    LET neg    == s # <<>> /\ s[1] = "-"
        digits == IF neg THEN Tail(s) ELSE s
    IN  IF digits = <<>> \/ \E i \in 1..Len(digits) : ~IsDigit(digits[i])
        THEN [val |-> 0, err |-> "syntax"]
        ELSE LET m == ParseMag(digits, 0, 0) IN
             IF m.over = 0 THEN [val |-> IF neg THEN -m.val ELSE m.val, err |-> "nil"]
             ELSE IF neg THEN [val |-> MinInt, err |-> IF m.over = 1 THEN "nil" ELSE "range"]
             ELSE [val |-> MaxInt, err |-> "range"]

\* sort.Strings over the keys collected from a map: ascending, each once
RECURSIVE SortStrings(_)
SortStrings(S) ==
    IF S = {} THEN <<>>
    ELSE LET m == CHOOSE x \in S : \A y \in S \ {x} : StrLess(x, y)
         IN  <<m>> \o SortStrings(S \ {m})

(***************************************************************************)
(* The path classifier.                                                    *)
(***************************************************************************)
S_manifests == <<"m", "a", "n", "i", "f", "e", "s", "t", "s">>
S_tags == <<"t", "a", "g", "s">>
S_catalog == <<"_", "c", "a", "t", "a", "l", "o", "g">>
S_sha256 == <<"s", "h", "a", "2", "5", "6", ":">>

\* elems := strings.Split(req.URL.Path, "/"); elems = elems[1:]
Elems(path) == Tail(Split(path))

isManifest(path) ==
    LET elems == Elems(path)
    IN  IF Len(elems) < 4 THEN FALSE ELSE elems[Len(elems) - 1] = S_manifests

\* isTags as a copy of isManifest with the segment name left unchanged
isTagsCopied(path) ==
    LET elems == Elems(path)
    IN  IF Len(elems) < 4 THEN FALSE ELSE elems[Len(elems) - 1] = S_manifests

isTags(path) ==
    LET elems == Elems(path)
    IN  IF Len(elems) < 4 THEN FALSE ELSE elems[Len(elems) - 1] = S_tags

isCatalog(path) ==
    LET elems == Elems(path)
    IN  IF Len(elems) < 2 THEN FALSE ELSE elems[Len(elems)] = S_catalog

\* target := elem[len(elem)-1]
Target(path) == LET elem == Elems(path) IN elem[Len(elem)]

\* repo := strings.Join(elem[1:len(elem)-2], "/")
Repo(path) == LET elem == Elems(path) IN Join(SubSeq(elem, 2, Len(elem) - 2))

\* hostnameParts := strings.Split(repo, "/")
HostnameParts(path) == Split(Repo(path))

\* the locals a handler computes from the path before it looks at the method
Decompose(path) == [target |-> Target(path), repo |-> Repo(path), parts |-> HostnameParts(path)]


(***************************************************************************)
(* Values.                                                                 *)
(***************************************************************************)
NoErr == [Status |-> 0, Code |-> "", Message |-> ""]

InvalidParams == [Status |-> 400, Code |-> "INVALID PARAMS", Message |-> "No chart name specified"]
NotFound == [Status |-> 404, Code |-> "NOT FOUND", Message |-> "Chart prepare error"]
MethodUnknown == [Status |-> 400, Code |-> "METHOD_UNKNOWN",
                  Message |-> "We don't understand your method + url"]
\* Message: fmt.Sprintf("parsing n: %v", err)
BadRequest(err) ==
    [Status |-> 400, Code |-> "BAD_REQUEST",
     Message |-> IF err = "syntax" THEN "parsing n: invalid syntax"
                 ELSE "parsing n: value out of range"]

\* an error of the Chart Preparer, with a status, code and message of its own
PrepareError == [Status |-> 502, Code |-> "UPSTREAM", Message |-> "chart repository unreachable"]
\* a second one, so that an error is told from another
PrepareDenied == [Status |-> 401, Code |-> "UNAUTHORIZED", Message |-> "chart repository denied access"]

NoResp == [kind |-> "none", Status |-> 0, err |-> NoErr, Digest |-> <<>>, ContentType |-> "",
           ContentLength |-> -1, Body |-> <<>>]

\* a regError returned by a handler
ErrResp(e) == [NoResp EXCEPT !.kind = "error", !.Status = e.Status, !.err = e]

\* a run-time panic inside the handler (index or slice bound out of range): the
\* handler writes nothing and returns nothing
PanicResp == [NoResp EXCEPT !.kind = "panic"]

\* rd := sha256.Sum256(ma.Blob); d := "sha256:" + hex.EncodeToString(rd[:])
\* SHA-256 is an uninterpreted, collision-free function of the blob
Sum256(blob) == <<"Sum256", blob>>
\* the digest of an empty buffer in place of the blob's
DigestOfNothing(blob) == <<S_sha256, <<"hex", Sum256(<<>>)>>>>
DigestOf(blob) == <<S_sha256, <<"hex", Sum256(blob)>>>>

\* the 200 response of the manifest handler; HEAD writes the headers alone
ManifestResp(method, ma) ==
    [NoResp EXCEPT !.kind = "ok", !.Status = 200,
                   !.Digest = DigestOf(ma.Blob),
                   !.ContentType = ma.ContentType,
                   !.ContentLength = Len(ma.Blob),
                   !.Body = IF method = "GET" THEN ma.Blob ELSE <<>>]

\* the collection without the test of "sha256:": digests are listed as tags
SortedTagsAll(c) == SortStrings(DOMAIN c)

(***************************************************************************)
(* Tag listing and catalog listing: the pure steps.                        *)
(***************************************************************************)
\* for tag := range c { if !strings.Contains(tag, "sha256:") { tags = append(tags, tag) } }
\* sort.Strings(tags)
SortedTags(c) == SortStrings({t \in DOMAIN c : ~Contains(t, S_sha256)})

\* Offset using last query parameter.
AfterLast(tags, last) ==
    IF last = <<>> THEN tags
    ELSE IF \E i \in 1..Len(tags) : StrLess(last, tags[i])
         THEN LET i == CHOOSE k \in 1..Len(tags) :
                           /\ StrLess(last, tags[k])
                           /\ \A j \in 1..(k - 1) : ~StrLess(last, tags[j])
              IN  SubSeq(tags, i, Len(tags))
         ELSE tags

\* Limit using n query parameter: the tags, a BAD_REQUEST or a slice-bound panic
LimitN(tags, ns) ==
    IF ns = <<>> THEN [kind |-> "ok", tags |-> tags, err |-> NoErr]
    ELSE LET a == Atoi(ns) IN
         IF a.err # "nil" THEN [kind |-> "error", tags |-> <<>>, err |-> BadRequest(a.err)]
         ELSE IF a.val < Len(tags)
              THEN IF a.val < 0 THEN [kind |-> "panic", tags |-> <<>>, err |-> NoErr]
                   ELSE [kind |-> "ok", tags |-> SubSeq(tags, 1, a.val), err |-> NoErr]
              ELSE [kind |-> "ok", tags |-> tags, err |-> NoErr]

\* len(json.Marshal(list)) of a []string: null for a nil slice
RECURSIVE SumLen(_)
SumLen(list) == IF list = <<>> THEN 0 ELSE Len(list[1]) + 2 + SumLen(Tail(list))
JSONListLen(list, isNil) ==
    IF isNil THEN 4
    ELSE IF list = <<>> THEN 2
    ELSE 2 + SumLen(list) + (Len(list) - 1)

\* the 200 response of the tags handler
TagsResp(repo, tags, isNil) ==
    [NoResp EXCEPT !.kind = "ok", !.Status = 200,
                   !.ContentLength = 8 + (Len(repo) + 2) + 8 + JSONListLen(tags, isNil) + 1,
                   !.Body = [Name |-> repo, Tags |-> tags]]

\* n := 10000
DefaultN == 10000

\* if nStr != "" { n, _ = strconv.Atoi(nStr) }
CatalogN(nStr) == IF nStr = <<>> THEN DefaultN ELSE Atoi(nStr).val

\* the loop with the test countRepos > n: it stops one key late
CatalogListsLate(keys, n) ==
    LET k == IF n < 0 THEN 0 ELSE IF n < Cardinality(keys) THEN n + 1 ELSE Cardinality(keys)
    IN  {s \in [1..k -> keys] : \A i, j \in 1..k : i # j => s[i] # s[j]}

\* the sequences the loop over the map can build: the map yields its keys in any
\* order, each once, and the loop stops before the (n+1)-th
CatalogLists(keys, n) ==
    LET k == IF n <= 0 THEN 0 ELSE IF n < Cardinality(keys) THEN n ELSE Cardinality(keys)
    IN  {s \in [1..k -> keys] : \A i, j \in 1..k : i # j => s[i] # s[j]}

\* the 200 response of the catalog handler
CatalogResp(repos) ==
    [NoResp EXCEPT !.kind = "ok", !.Status = 200,
                   !.ContentLength = 16 + JSONListLen(repos, repos = <<>>) + 1,
                   !.Body = [Repos |-> repos]]



(***************************************************************************)
(* The requests the workers are given.                                     *)
(***************************************************************************)
Procs == 1..NumProcs

R_na == <<"n", "/", "a">>
R_nb == <<"n", "/", "b">>
R_s == <<"s">>
R_nax == <<"n", "/", "a", "/", "x">>
T_a == <<"a">>
T_b == <<"b">>
D_d == S_sha256 \o <<"d">>

V2 == <<"/", "v", "2", "/">>
ManifestPath(repo, ref) == V2 \o repo \o <<"/">> \o S_manifests \o <<"/">> \o ref
TagsPath(repo) == V2 \o repo \o <<"/">> \o S_tags \o <<"/", "l", "i", "s", "t">>
CatalogPath == V2 \o S_catalog

Methods == {"GET", "HEAD", "DELETE"}
RepoNames == {R_na, R_nb, R_s, R_nax}
Refs == {T_a, T_b, D_d}
Lasts == {<<>>, T_a, T_b}
Ns == {<<>>, <<"0">>, <<"1">>, <<"-", "1">>, <<"x">>,
       <<"9", "9", "9", "9", "9", "9", "9", "9", "9", "9">>}

Req(m, path, last, n) == [Method |-> m, Path |-> path, last |-> last, n |-> n, handler |-> ""]

ManifestReqs == {Req(m, ManifestPath(r, t), <<>>, <<>>) : m \in Methods, r \in RepoNames, t \in Refs}
\* the (last, n) pairs of the tags requests: each alone, and one of both
Queries == {<<l, <<>>>> : l \in Lasts} \cup {<<<<>>, n>> : n \in Ns} \cup {<<T_a, <<"1">>>>}
TagsReqs ==
    {Req("GET", TagsPath(r), q[1], q[2]) : r \in RepoNames, q \in Queries}
        \cup {Req("DELETE", TagsPath(r), <<>>, <<>>) : r \in RepoNames}
CatalogReqs == {Req("GET", CatalogPath, <<>>, n) : n \in Ns} \cup {Req("DELETE", CatalogPath, <<>>, <<>>)}

\* paths whose last segment is _catalog below a manifests or tags segment
OverlapReqs ==
    {Req("GET", ManifestPath(R_s, S_catalog), <<>>, <<>>),
     Req("GET", V2 \o R_na \o <<"/">> \o S_tags \o <<"/">> \o S_catalog, <<>>, <<>>)}

\* the requests of the one-worker specification
Requests == ManifestReqs \cup TagsReqs \cup CatalogReqs \cup OverlapReqs

\* the requests of the concurrent specification
ConcRequests ==
    {Req("GET", ManifestPath(R_na, T_a), <<>>, <<>>),
     Req("HEAD", ManifestPath(R_na, T_a), <<>>, <<>>),
     Req("DELETE", ManifestPath(R_na, T_a), <<>>, <<>>),
     Req("GET", TagsPath(R_na), <<>>, <<>>),
     Req("GET", CatalogPath, <<>>, <<>>)}

\* the requests of the fair specification: one for each way a handler ends
LiveRequests ==
    {Req("GET", ManifestPath(R_na, T_a), <<>>, <<>>),
     Req("HEAD", ManifestPath(R_s, T_a), <<>>, <<>>),
     Req("GET", TagsPath(R_na), <<>>, <<"x">>),
     Req("GET", TagsPath(R_s), <<>>, <<>>),
     Req("DELETE", TagsPath(R_na), <<>>, <<>>),
     Req("GET", CatalogPath, <<>>, <<>>)}

NoReq == Req("", <<>>, <<>>, <<>>)

\* what a Preparer invocation does: it fails, or inserts the references of plan,
\* each with the given blob
ContentTypeOCI == "application/vnd.oci.image.manifest.v1+json"
Outcome(err, plan, blob) ==
    [err |-> err, plan |-> plan, blob |-> blob, e |-> IF err THEN PrepareError ELSE NoErr]
Failure == Outcome(TRUE, {}, <<>>)
Denied == [Failure EXCEPT !.e = PrepareDenied]
Outcomes == {Failure, Denied} \cup {Outcome(FALSE, pl, <<1, 2>>) : pl \in {{}, {T_a}, {T_b}, {D_d}, Refs}}
ConcOutcomes == {Failure} \cup {Outcome(FALSE, pl, b) : pl \in {{}, {T_a}, {T_a, T_b}}, b \in {<<1>>, <<1, 2>>}}
LiveOutcomes == {Failure, Outcome(FALSE, {}, <<>>), Outcome(FALSE, {T_a}, <<1>>)}

(***************************************************************************)
(* State.                                                                  *)
(***************************************************************************)
\* the locals of a handler: c (line 99) is "nil" when the repository was absent
\* and aliases the repository's table when it was present; err is what
\* PrepareChart returned; args, plan, blob and ret belong to the PrepareChart
\* call in progress
NoLoc == [target |-> <<>>, repo |-> <<>>, parts |-> <<>>,
          c |-> "unset", err |-> NoErr, args |-> <<>>, plan |-> {}, blob |-> <<>>, ret |-> ""]

Init ==
    /\ manifests = <<>>
    /\ lock = 0
    /\ pc = [p \in Procs |-> "idle"]
    /\ req = [p \in Procs |-> NoReq]
    /\ loc = [p \in Procs |-> NoLoc]
    /\ resp = [p \in Procs |-> NoResp]
    /\ calls = [p \in Procs |-> 0]
    /\ mutated = [p \in Procs |-> FALSE]
    /\ store0 = [p \in Procs |-> <<>>]
    /\ oracle = [p \in Procs |-> <<>>]

\* m.manifests[repo]: whether the repository is in the store
HasRepo(store, repo) == repo \in DOMAIN store

\* m.manifests[repo][target]: a read of a missing (nil) table misses
HasRef(store, repo, target) == HasRepo(store, repo) /\ target \in DOMAIN store[repo]

(***************************************************************************)
(* The Chart Preparer: registry.PrepareChart(ctx, namespace, name, ref).   *)
(* It runs inside the caller's critical section, fails or inserts zero or  *)
(* more references one map write at a time under namespace/name, and       *)
(* leaves the references already stored alone.                             *)
(***************************************************************************)
PrepareKey(args) == Join(<<args[1], args[2]>>)

\* one map write of the Preparer
InsertRef(store, key, ref, ma) ==
    [r \in DOMAIN store \cup {key} |->
        IF r = key
        THEN IF HasRepo(store, key)
             THEN [t \in DOMAIN store[key] \cup {ref} |->
                      IF t \in DOMAIN store[key] THEN store[key][t] ELSE ma]
             ELSE [t \in {ref} |-> ma]
        ELSE store[r]]

\* the whole effect of one invocation on the store
RECURSIVE InsertAll(_, _, _, _)
InsertAll(store, key, plan, ma) ==
    IF plan = {} THEN store
    ELSE LET ref == CHOOSE t \in plan : TRUE
         IN  InsertAll(InsertRef(store, key, ref, ma), key, plan \ {ref}, ma)

PrepareApply(store, args, o) ==
    IF o.err THEN store
    ELSE InsertAll(store, PrepareKey(args), o.plan, [ContentType |-> ContentTypeOCI, Blob |-> o.blob])

\* PrepareChart starts: it fails, or settles what it will insert
PrepareStart(p, outcomes, rec) ==
    /\ pc[p] = "prepare"
    /\ calls' = [calls EXCEPT ![p] = @ + 1]
    /\ \E o \in outcomes :
        /\ IF o.err
           THEN /\ loc' = [loc EXCEPT ![p].err = o.e]
                /\ pc' = [pc EXCEPT ![p] = loc[p].ret]
           ELSE /\ loc' = [loc EXCEPT ![p].err = NoErr, ![p].plan = o.plan, ![p].blob = o.blob]
                /\ pc' = [pc EXCEPT ![p] = "preparing"]
        /\ oracle' = [oracle EXCEPT ![p] = IF rec THEN Append(@, o) ELSE @]
    /\ UNCHANGED <<manifests, lock, req, resp, mutated, store0>>

\* PrepareChart inserts one of the references it settled on
PrepareInsert(p) ==
    /\ pc[p] = "preparing"
    /\ \E ref \in loc[p].plan :
        /\ manifests' = InsertRef(manifests, PrepareKey(loc[p].args), ref,
                                  [ContentType |-> ContentTypeOCI, Blob |-> loc[p].blob])
        /\ loc' = [loc EXCEPT ![p].plan = @ \ {ref}]
        /\ mutated' = [mutated EXCEPT ![p] = @ \/ manifests' # manifests]
    /\ UNCHANGED <<lock, pc, req, resp, calls, store0, oracle>>

\* PrepareChart returns nil
PrepareReturn(p) ==
    /\ pc[p] = "preparing"
    /\ loc[p].plan = {}
    /\ pc' = [pc EXCEPT ![p] = loc[p].ret]
    /\ UNCHANGED <<manifests, lock, req, loc, resp, calls, mutated, store0, oracle>>

(***************************************************************************)
(* Entering and leaving a handler.                                         *)
(***************************************************************************)
Handlers == {"handle", "handleTags", "handleCatalog"}

\* a handler without its test of the method
ServesAny(handler, method) == TRUE

\* the methods a handler serves under the lock
Serves(handler, method) ==
    IF handler = "handle" THEN method \in {"GET", "HEAD"} ELSE method = "GET"

\* the first step of each handler inside its critical section
FirstStep(handler) ==
    IF handler = "handle" THEN "getRepo"
    ELSE IF handler = "handleTags" THEN "tagsPrepare"
    ELSE "catalogList"

\* the handlers a request can be dispatched to, each with the locals it computes
\* from the path (lines 88-92 and 189-192; handleCatalog computes none)
Routes(requests) ==
    {[req |-> [r EXCEPT !.handler = "handle"], d |-> Decompose(r.Path)] :
        r \in {x \in requests : isManifest(x.Path)}}
    \cup {[req |-> [r EXCEPT !.handler = "handleTags"], d |-> Decompose(r.Path)] :
        r \in {x \in requests : isTags(x.Path)}}
    \cup {[req |-> [r EXCEPT !.handler = "handleCatalog"],
            d |-> [target |-> <<>>, repo |-> <<>>, parts |-> <<>>]] :
        r \in {x \in requests : isCatalog(x.Path)}}
AllRoutes == Routes(Requests)
ConcRoutes == Routes(ConcRequests)
LiveRoutes == Routes(LiveRequests)

\* a request arrives and is dispatched to a handler its path classifies as
Receive(p, routes) ==
    /\ pc[p] = "idle"
    /\ \E rt \in routes :
        /\ req' = [req EXCEPT ![p] = rt.req]
        /\ pc' = [pc EXCEPT ![p] = rt.req.handler]
        /\ loc' = [loc EXCEPT ![p] = [NoLoc EXCEPT !.target = rt.d.target, !.repo = rt.d.repo,
                                                   !.parts = rt.d.parts]]
    /\ UNCHANGED <<manifests, lock, resp, calls, mutated, store0, oracle>>

\* the response is with the client: the worker is free for the next request
Finish(p) ==
    /\ pc[p] = "done"
    /\ pc' = [pc EXCEPT ![p] = "idle"]
    /\ req' = [req EXCEPT ![p] = NoReq]
    /\ resp' = [resp EXCEPT ![p] = NoResp]
    /\ calls' = [calls EXCEPT ![p] = 0]
    /\ mutated' = [mutated EXCEPT ![p] = FALSE]
    /\ store0' = [store0 EXCEPT ![p] = <<>>]
    /\ oracle' = [oracle EXCEPT ![p] = <<>>]
    /\ UNCHANGED <<manifests, lock, loc>>

\* default: / the code after the if: the method is not one the handler serves
RejectMethod(p) ==
    /\ pc[p] \in Handlers
    /\ ~Serves(pc[p], req[p].Method)
    /\ resp' = [resp EXCEPT ![p] = ErrResp(MethodUnknown)]
    /\ pc' = [pc EXCEPT ![p] = "done"]
    /\ loc' = [loc EXCEPT ![p] = NoLoc]
    /\ UNCHANGED <<manifests, lock, req, calls, mutated, store0, oracle>>

\* a Lock that never waits: the handlers run without mutual exclusion
LockAlwaysFree(l) == TRUE

\* m.lock.Lock() returns only when no request holds the lock
LockFree(l) == l = 0

\* m.lock.Lock(); defer m.lock.Unlock()
Lock(p, rec) ==
    /\ pc[p] \in Handlers
    /\ Serves(pc[p], req[p].Method)
    /\ LockFree(lock)
    /\ lock' = p
    /\ pc' = [pc EXCEPT ![p] = FirstStep(pc[p])]
    /\ store0' = [store0 EXCEPT ![p] = IF rec THEN manifests ELSE @]
    /\ UNCHANGED <<manifests, req, loc, resp, calls, mutated, oracle>>

\* an Unlock that is not deferred: a panic leaves the lock held
ReturnPanicHolds(p, r) ==
    /\ resp' = [resp EXCEPT ![p] = r]
    /\ pc' = [pc EXCEPT ![p] = "done"]
    /\ lock' = IF r.kind = "panic" THEN lock ELSE 0
    /\ loc' = [loc EXCEPT ![p] = NoLoc]
    /\ UNCHANGED <<manifests, req, calls, mutated, store0, oracle>>

\* the handler returns (or panics): the deferred Unlock releases the lock
Return(p, r) ==
    /\ resp' = [resp EXCEPT ![p] = r]
    /\ pc' = [pc EXCEPT ![p] = "done"]
    /\ lock' = 0
    /\ loc' = [loc EXCEPT ![p] = NoLoc]
    /\ UNCHANGED <<manifests, req, calls, mutated, store0, oracle>>

\* a handler that gives the lock up for the duration of the PrepareChart call
CallPrepareUnlocked(p, c, args, ret) ==
    /\ pc' = [pc EXCEPT ![p] = "prepare"]
    /\ loc' = [loc EXCEPT ![p].c = c, ![p].args = args, ![p].ret = ret]
    /\ lock' = 0
    /\ UNCHANGED <<manifests, req, resp, calls, mutated, store0, oracle>>

\* the handler calls PrepareChart and continues at ret when it returns
CallPrepare(p, c, args, ret) ==
    /\ pc' = [pc EXCEPT ![p] = "prepare"]
    /\ loc' = [loc EXCEPT ![p].c = c, ![p].args = args, ![p].ret = ret]
    /\ UNCHANGED <<manifests, lock, req, resp, calls, mutated, store0, oracle>>


(***************************************************************************)
(* Manifests.handle: GET and HEAD of /v2/<name>/manifests/<ref>.           *)
(***************************************************************************)
\* the arguments of PrepareChart: hostnameParts[0], hostnameParts[1], reference
PrepareArgs(d, ref) == <<d.parts[1], d.parts[2], ref>>

\* GET, line 99: c, ok := m.manifests[repo]; HEAD keeps no table
CaptureTable(method, store, repo) ==
    IF method = "GET" THEN (IF HasRepo(store, repo) THEN "map" ELSE "nil") ELSE "unset"

\* GET, lines 114 and 120: ma, ok = c[target], where c is the table read at line 99;
\* HEAD, lines 155 and 161: ma, ok = m.manifests[repo][target]
LookupOk(method, c, store, repo, target) ==
    IF method = "GET" THEN c = "map" /\ HasRef(store, repo, target)
    ELSE HasRef(store, repo, target)

\* the step without the check of len(hostnameParts): hostnameParts[1] is then out
\* of range for a one-component name
GetRepoStepNoCheck(method, d, store) ==
    LET c == CaptureTable(method, store, d.repo)
    IN  IF ~HasRepo(store, d.repo)
        THEN IF Len(d.parts) < 2
             THEN [next |-> "return", c |-> c, resp |-> PanicResp]
             ELSE [next |-> "prepare", c |-> c, resp |-> NoResp]
        ELSE [next |-> "lookup", c |-> c, resp |-> NoResp]

\* lines 99-108 and 142-150: return INVALID PARAMS, call PrepareChart, or go on
GetRepoStep(method, d, store) ==
    LET c == CaptureTable(method, store, d.repo)
    IN  IF ~HasRepo(store, d.repo)
        THEN IF Len(d.parts) < 2
             THEN [next |-> "return", c |-> c, resp |-> ErrResp(InvalidParams)]
             ELSE [next |-> "prepare", c |-> c, resp |-> NoResp]
        ELSE [next |-> "lookup", c |-> c, resp |-> NoResp]

\* the step without the check of err after the first PrepareChart
LookupStepSwallow(method, d, c, err, store) ==
    IF LookupOk(method, c, store, d.repo, d.target)
    THEN [next |-> "return", resp |-> ManifestResp(method, store[d.repo][d.target])]
    ELSE IF Len(d.parts) < 2
    THEN [next |-> "return", resp |-> PanicResp]
    ELSE [next |-> "prepare", resp |-> NoResp]

\* lines 109-116 and 151-157, and lines 130-137 and 171-177 on a hit
LookupStep(method, d, c, err, store) ==
    IF err # NoErr THEN [next |-> "return", resp |-> ErrResp(err)]
    ELSE IF LookupOk(method, c, store, d.repo, d.target)
    THEN [next |-> "return", resp |-> ManifestResp(method, store[d.repo][d.target])]
    ELSE IF Len(d.parts) < 2
    THEN [next |-> "return", resp |-> PanicResp]
    ELSE [next |-> "prepare", resp |-> NoResp]

\* the step without the second check of ok: a miss serves the zero Manifest
RetryStepNoCheck(method, d, c, err, store) ==
    IF err # NoErr THEN ErrResp(err)
    ELSE IF LookupOk(method, c, store, d.repo, d.target)
    THEN ManifestResp(method, store[d.repo][d.target])
    ELSE ManifestResp(method, [ContentType |-> "", Blob |-> <<>>])

\* lines 117-137 and 158-177
RetryStep(method, d, c, err, store) ==
    IF err # NoErr THEN ErrResp(err)
    ELSE IF LookupOk(method, c, store, d.repo, d.target)
    THEN ManifestResp(method, store[d.repo][d.target])
    ELSE ErrResp(NotFound)

ManifestGetRepo(p) ==
    LET g == GetRepoStep(req[p].Method, loc[p], manifests)
    IN  /\ pc[p] = "getRepo"
        /\ IF g.next = "return" THEN Return(p, g.resp)
           ELSE IF g.next = "prepare"
           THEN CallPrepare(p, g.c, PrepareArgs(loc[p], loc[p].target), "lookup")
           ELSE /\ pc' = [pc EXCEPT ![p] = "lookup"]
                /\ loc' = [loc EXCEPT ![p].c = g.c]
                /\ UNCHANGED <<manifests, lock, req, resp, calls, mutated, store0, oracle>>

ManifestLookup(p) ==
    LET l == LookupStep(req[p].Method, loc[p], loc[p].c, loc[p].err, manifests)
    IN  /\ pc[p] = "lookup"
        /\ IF l.next = "return" THEN Return(p, l.resp)
           ELSE CallPrepare(p, loc[p].c, PrepareArgs(loc[p], loc[p].target), "retry")

ManifestRetry(p) ==
    /\ pc[p] = "retry"
    /\ Return(p, RetryStep(req[p].Method, loc[p], loc[p].c, loc[p].err, manifests))

\* the handler run from lock to unlock with the Preparer's invocations given by
\* orc: the response, the arguments of the Preparer's invocations and the final store
RunManifest(method, store, path, orc) ==
    LET d == Decompose(path)
        g == GetRepoStep(method, d, store)
    IN  IF g.next = "return" THEN [resp |-> g.resp, calls |-> <<>>, store |-> store]
        ELSE LET args  == PrepareArgs(d, d.target)
                 first == g.next = "prepare"
                 s1    == IF first THEN PrepareApply(store, args, orc[1]) ELSE store
                 e1    == IF first THEN orc[1].e ELSE NoErr
                 k1    == IF first THEN <<args>> ELSE <<>>
                 l     == LookupStep(method, d, g.c, e1, s1)
             IN  IF l.next = "return" THEN [resp |-> l.resp, calls |-> k1, store |-> s1]
                 ELSE LET o2 == orc[Len(k1) + 1]
                          s2 == PrepareApply(s1, args, o2)
                          e2 == o2.e
                      IN  [resp |-> RetryStep(method, d, g.c, e2, s2),
                           calls |-> Append(k1, args), store |-> s2]

(***************************************************************************)
(* Manifests.handleTags: GET of /v2/<name>/tags/list.                      *)
(***************************************************************************)
\* the tags handler populating on a miss only, as the manifest handler does
TagsPrepareOnMiss(p) ==
    /\ pc[p] = "tagsPrepare"
    /\ IF Len(loc[p].parts) < 2
       THEN Return(p, PanicResp)
       ELSE IF HasRepo(manifests, loc[p].repo)
       THEN /\ pc' = [pc EXCEPT ![p] = "tagsList"]
            /\ UNCHANGED <<manifests, lock, req, loc, resp, calls, mutated, store0, oracle>>
       ELSE CallPrepare(p, loc[p].c, PrepareArgs(loc[p], <<>>), "tagsList")

\* line 198: hostnameParts[1] is out of range for a one-component name
TagsPrepare(p) ==
    /\ pc[p] = "tagsPrepare"
    /\ IF Len(loc[p].parts) < 2
       THEN Return(p, PanicResp)
       ELSE CallPrepare(p, loc[p].c, PrepareArgs(loc[p], <<>>), "tagsList")

\* lines 199-249: what the handler answers from the store
TagsAnswer(err, store, repo, last, ns) ==
    IF err # NoErr THEN ErrResp(err)
    ELSE IF ~HasRepo(store, repo) THEN ErrResp(NotFound)
    ELSE LET sorted == SortedTags(store[repo])
             lim    == LimitN(AfterLast(sorted, last), ns)
         IN  IF lim.kind = "error" THEN ErrResp(lim.err)
             ELSE IF lim.kind = "panic" THEN PanicResp
             ELSE TagsResp(repo, lim.tags, sorted = <<>>)

\* lines 199-255
TagsList(p) ==
    /\ pc[p] = "tagsList"
    /\ Return(p, TagsAnswer(loc[p].err, manifests, loc[p].repo, req[p].last, req[p].n))

(***************************************************************************)
(* Manifests.handleCatalog: GET of /v2/_catalog.                           *)
(***************************************************************************)
\* lines 266-295
CatalogList(p) ==
    /\ pc[p] = "catalogList"
    /\ \E repos \in CatalogLists(DOMAIN manifests, CatalogN(req[p].n)) :
        Return(p, CatalogResp(repos))

(***************************************************************************)
(* The specifications: one worker over every request, and NumProcs workers *)
(* over the requests of one repository.                                    *)
(***************************************************************************)
Step(p, routes, outcomes, rec) ==
    \/ Receive(p, routes)
    \/ Finish(p)
    \/ RejectMethod(p)
    \/ Lock(p, rec)
    \/ ManifestGetRepo(p)
    \/ ManifestLookup(p)
    \/ ManifestRetry(p)
    \/ TagsPrepare(p)
    \/ TagsList(p)
    \/ CatalogList(p)
    \/ PrepareStart(p, outcomes, rec)
    \/ PrepareInsert(p)
    \/ PrepareReturn(p)

Next == Step(1, AllRoutes, Outcomes, TRUE)

Spec == Init /\ [][Next]_vars

NextConc == \E p \in Procs : Step(p, ConcRoutes, ConcOutcomes, FALSE)

SpecConc == Init /\ [][NextConc]_vars

\* NumProcs workers under a fair scheduler. Every goroutine that can take a step
\* of its handler or of the Preparer it called eventually takes it, the Preparer
\* returning being the claim's hypothesis; sync.Mutex hands the lock to a
\* goroutine that keeps waiting for it (starvation mode), which is strong
\* fairness of Lock. No fairness is put on the arrival of requests.
NextLive == \E p \in Procs : Step(p, LiveRoutes, LiveOutcomes, FALSE)

Progress(p) ==
    \/ RejectMethod(p)
    \/ ManifestGetRepo(p)
    \/ ManifestLookup(p)
    \/ ManifestRetry(p)
    \/ TagsPrepare(p)
    \/ TagsList(p)
    \/ CatalogList(p)
    \/ PrepareStart(p, LiveOutcomes, FALSE)
    \/ PrepareInsert(p)
    \/ PrepareReturn(p)

SpecLive ==
    /\ Init
    /\ [][NextLive]_vars
    /\ \A p \in Procs : WF_vars(Progress(p)) /\ SF_vars(Lock(p, FALSE))


(***************************************************************************)
(* Properties.                                                             *)
(***************************************************************************)
\* worker p has answered a GET or HEAD of a manifest
ManifestDone(p) ==
    pc[p] = "done" /\ req[p].handler = "handle" /\ req[p].Method \in {"GET", "HEAD"}

\* worker p has answered a GET of a tag list
TagsDone(p) == pc[p] = "done" /\ req[p].handler = "handleTags" /\ req[p].Method = "GET"

\* worker p has answered a GET of the catalog
CatalogDone(p) == pc[p] = "done" /\ req[p].handler = "handleCatalog" /\ req[p].Method = "GET"

\* every Preparer invocation of p's request succeeded
AllSucceeded(p) == \A i \in 1..Len(oracle[p]) : ~oracle[p][i].err

\* the Preparer's first invocation for p's request succeeded and inserted the
\* requested reference under the requested repository
FirstInserts(p) ==
    LET d == Decompose(req[p].Path)
    IN  /\ oracle[p] # <<>>
        /\ ~oracle[p][1].err
        /\ d.target \in oracle[p][1].plan
        /\ Len(d.parts) >= 2
        /\ PrepareKey(PrepareArgs(d, d.target)) = d.repo

\* p's response is the 200 of the manifest now stored under its repository and
\* reference
ServesStored(p) ==
    LET d == Decompose(req[p].Path)
    IN  /\ HasRef(manifests, d.repo, d.target)
        /\ resp[p] = ManifestResp(req[p].Method, manifests[d.repo][d.target])

\* C1: a GET or HEAD of a manifest whose repository was absent, whose name has
\* two components or more and whose Preparer succeeded and inserted the reference
\* answers 200 with the inserted manifest
C1_PopulateThenServe ==
    \A p \in Procs :
        (/\ ManifestDone(p)
         /\ ~HasRepo(store0[p], Decompose(req[p].Path).repo)
         /\ AllSucceeded(p)
         /\ FirstInserts(p))
        => ServesStored(p)

\* C2: with a Preparer that succeeds and inserts the reference on its first
\* invocation, a GET or HEAD of a manifest invokes the Preparer once when the
\* reference was missing, and not at all, leaving the store as it was, when the
\* reference was stored
C2_BuildOnce ==
    \A p \in Procs :
        LET d == Decompose(req[p].Path)
        IN  ManifestDone(p) =>
              /\ HasRef(store0[p], d.repo, d.target) =>
                    (calls[p] = 0 /\ manifests = store0[p])
              /\ (~HasRef(store0[p], d.repo, d.target) /\ AllSucceeded(p) /\ FirstInserts(p)) =>
                    calls[p] = 1

\* what a run of the handler comes to, the body aside
Observed(r) ==
    [kind |-> r.resp.kind, Status |-> r.resp.Status, err |-> r.resp.err, Digest |-> r.resp.Digest,
     ContentType |-> r.resp.ContentType, ContentLength |-> r.resp.ContentLength,
     calls |-> r.calls, store |-> r.store]

OtherMethod(m) == IF m = "GET" THEN "HEAD" ELSE "GET"

\* C3: from the store a GET or HEAD of a manifest started in, the other method,
\* given the same path and the same Preparer behaviour, comes to the same status
\* or error, the same headers, the same Preparer invocations and the same store
C3_GetHeadSame ==
    \A p \in Procs :
        ManifestDone(p) =>
            \A pad \in Outcomes :
                LET orc == oracle[p] \o <<pad, pad>>
                IN  Observed(RunManifest(req[p].Method, store0[p], req[p].Path, orc))
                      = Observed(RunManifest(OtherMethod(req[p].Method), store0[p], req[p].Path, orc))

\* the run of the handler as one function agrees with the run in steps
RunAgrees ==
    \A p \in Procs :
        ManifestDone(p) =>
            LET r == RunManifest(req[p].Method, store0[p], req[p].Path, oracle[p] \o <<Failure, Failure>>)
            IN  /\ r.resp = resp[p]
                /\ Len(r.calls) = calls[p]
                /\ r.store = manifests


\* the positions from which a handler's next step reads the store
ReadPcs == {"getRepo", "lookup", "retry", "tagsList", "catalogList"}

\* the positions between m.lock.Lock() and the deferred m.lock.Unlock()
CriticalPcs == ReadPcs \cup {"tagsPrepare", "prepare", "preparing"}

InCritical(p) == pc[p] \in CriticalPcs

\* a Preparer invocation of p that has inserted some but not all of its references
HalfPopulated(p) == pc[p] = "preparing" /\ loc[p].plan # {} /\ mutated[p]

\* C4: while a Preparer invocation of one request is between its start and its
\* return, no other request is at a step that reads the store
C4_NoHalfPopulatedRead ==
    \A p, q \in Procs :
        (p # q /\ pc[q] \in {"prepare", "preparing"}) => pc[p] \notin ReadPcs

\* a Preparer invocation is half way through its insertions while another
\* request, one that will read the store, waits for the lock
C4_Witness ==
    \E p, q \in Procs :
        /\ p # q
        /\ HalfPopulated(q)
        /\ pc[p] \in Handlers
        /\ Serves(pc[p], req[p].Method)

\* C5: a request inside a handler's critical section, a Preparer call included,
\* holds the store lock, and no two requests are inside it at once
C5_MutualExclusion ==
    /\ \A p \in Procs : InCritical(p) => lock = p
    /\ \A p \in Procs : pc[p] \in {"prepare", "preparing"} => lock = p
    /\ \A p, q \in Procs : (p # q /\ InCritical(p)) => ~InCritical(q)
    /\ (\A p \in Procs : ~InCritical(p)) => lock = 0

\* one request is inside a Preparer call and holds the lock while another has
\* arrived and waits for it
C5_Witness ==
    \E p, q \in Procs :
        /\ p # q
        /\ pc[q] = "preparing"
        /\ lock = q
        /\ pc[p] \in Handlers
        /\ Serves(pc[p], req[p].Method)
        /\ calls[q] = 2

\* C6: a GET or HEAD of a manifest whose repository name has one component and
\* is not in the store answers 400 INVALID PARAMS, invokes the Preparer zero
\* times and leaves the store as it was
C6_InvalidNameManifest ==
    \A p \in Procs :
        LET d == Decompose(req[p].Path)
        IN  (ManifestDone(p) /\ Len(d.parts) < 2 /\ ~HasRepo(store0[p], d.repo)) =>
              /\ resp[p] = ErrResp(InvalidParams)
              /\ calls[p] = 0
              /\ ~mutated[p]
              /\ manifests = store0[p]

\* a HEAD of a manifest under a one-component name has been answered
C6_Witness ==
    \E p \in Procs :
        /\ ManifestDone(p)
        /\ req[p].Method = "HEAD"
        /\ Len(Decompose(req[p].Path).parts) < 2
        /\ resp[p].err.Code = "INVALID PARAMS"
        /\ manifests # <<>>

\* C7: a GET of the tag list of a repository whose name has one component and is
\* not in the store answers 400 INVALID PARAMS and invokes the Preparer zero times
C7_InvalidNameTags ==
    \A p \in Procs :
        LET d == Decompose(req[p].Path)
        IN  (TagsDone(p) /\ Len(d.parts) < 2 /\ ~HasRepo(store0[p], d.repo)) =>
              /\ resp[p] = ErrResp(InvalidParams)
              /\ calls[p] = 0

\* the sorted tags strictly greater than last
RECURSIVE Greater(_, _)
Greater(tags, last) ==
    IF tags = <<>> THEN <<>>
    ELSE IF StrLess(last, tags[1]) THEN <<tags[1]>> \o Greater(Tail(tags), last)
    ELSE Greater(Tail(tags), last)

\* C8: a 200 tag list for a non-empty last and no n is the repository's sorted
\* tags strictly greater than last
C8_CursorExclusive ==
    \A p \in Procs :
        LET d == Decompose(req[p].Path)
        IN  (TagsDone(p) /\ resp[p].kind = "ok" /\ req[p].last # <<>> /\ req[p].n = <<>>) =>
              resp[p].Body.Tags = Greater(SortedTags(manifests[d.repo]), req[p].last)

\* C9: a catalog GET whose n does not parse answers what it answers without n:
\* 200 with the repositories up to the default 10000
C9_CatalogLenient ==
    \A p \in Procs :
        (CatalogDone(p) /\ req[p].n # <<>> /\ Atoi(req[p].n).err # "nil") =>
              /\ resp[p].kind = "ok"
              /\ resp[p].Status = 200
              /\ resp[p].Body.Repos \in CatalogLists(DOMAIN manifests, DefaultN)

\* C10: a GET or HEAD of a manifest never invokes the Preparer more than twice;
\* when its invocations succeed but the reference is never inserted, it never
\* answers 200, and, having invoked the Preparer, answers 404 NOT FOUND
C10_MissingAfterRetry ==
    \A p \in Procs :
        LET d == Decompose(req[p].Path)
        IN  (req[p].handler = "handle" /\ req[p].Method \in {"GET", "HEAD"}) =>
              /\ calls[p] <= 2
              /\ (pc[p] = "done" /\ AllSucceeded(p) /\ ~HasRef(manifests, d.repo, d.target)) =>
                    /\ resp[p].Status # 200
                    /\ (HasRepo(store0[p], d.repo) \/ Len(d.parts) >= 2) =>
                          (calls[p] >= 1 /\ resp[p] = ErrResp(NotFound))
                    /\ calls[p] = (IF HasRepo(store0[p], d.repo) THEN 1
                                   ELSE IF Len(d.parts) >= 2 THEN 2 ELSE 0)

\* a HEAD of a manifest has answered 404 after two Preparer invocations that
\* both succeeded and inserted other references only
C10_Witness ==
    \E p \in Procs :
        /\ ManifestDone(p)
        /\ req[p].Method = "HEAD"
        /\ calls[p] = 2
        /\ AllSucceeded(p)
        /\ mutated[p]
        /\ resp[p] = ErrResp(NotFound)
        /\ ~HasRef(manifests, Decompose(req[p].Path).repo, Decompose(req[p].Path).target)


\* C11: when a Preparer invocation of a manifest or tags request returns an
\* error, the request returns exactly that error (status, code and message),
\* the failed invocation is the request's last one, no 200 is written and the
\* lock is released.
C11_PrepareErrorVerbatim ==
    \A p \in Procs :
        (ManifestDone(p) \/ TagsDone(p)) =>
            \A i \in 1..Len(oracle[p]) :
                oracle[p][i].err =>
                    /\ resp[p] = ErrResp(oracle[p][i].e)
                    /\ resp[p].Status = oracle[p][i].e.Status
                    /\ resp[p].Status # 200
                    /\ i = Len(oracle[p])
                    /\ calls[p] = i
                    /\ lock = 0

\* a manifest request whose second invocation was refused after the first succeeded
C11_Witness ==
    \E p \in Procs :
        /\ ManifestDone(p)
        /\ Len(oracle[p]) = 2
        /\ ~oracle[p][1].err
        /\ oracle[p][2] = Denied
        /\ resp[p] = ErrResp(PrepareDenied)


\* the methods a handler has no branch for
Unsupported(handler, method) ==
    \/ handler = "handle" /\ method \notin {"GET", "HEAD"}
    \/ handler \in {"handleTags", "handleCatalog"} /\ method # "GET"

\* C12: a request whose method its path does not support (not GET or HEAD on a
\* manifest path, not GET on a tags or catalog path) is answered with the 400
\* error METHOD_UNKNOWN; no step of it invokes the Preparer, takes the lock or
\* changes the store.
C12_MethodRejected ==
    [][\A p \in Procs :
        (req'[p].handler \in Handlers /\ Unsupported(req'[p].handler, req'[p].Method)) =>
            /\ manifests' = manifests
            /\ lock' = lock
            /\ calls'[p] = 0
            /\ pc'[p] \in Handlers \cup {"done"}
            /\ pc'[p] = "done" => /\ resp'[p] = ErrResp(MethodUnknown)
                                  /\ resp'[p].Status = 400
                                  /\ resp'[p].err.Code = "METHOD_UNKNOWN"]_vars

\* a DELETE of a tag list was rejected while the store held a repository
C12_Witness ==
    \E p \in Procs :
        /\ pc[p] = "done"
        /\ req[p].handler = "handleTags"
        /\ req[p].Method = "DELETE"
        /\ resp[p] = ErrResp(MethodUnknown)
        /\ manifests # <<>>

\* C13: with neither last nor n, a 200 tag list holds exactly the keys of the
\* repository's table that do not contain "sha256:", each once, in ascending
\* lexicographic order
C13_TagListing ==
    \A p \in Procs :
        LET d    == Decompose(req[p].Path)
            tags == resp[p].Body.Tags
        IN  (TagsDone(p) /\ resp[p].kind = "ok" /\ req[p].last = <<>> /\ req[p].n = <<>>) =>
              /\ HasRepo(manifests, d.repo)
              /\ {tags[i] : i \in 1..Len(tags)}
                     = {k \in DOMAIN manifests[d.repo] : ~Contains(k, S_sha256)}
              /\ \A i, j \in 1..Len(tags) : i < j => StrLess(tags[i], tags[j])
              /\ resp[p].Body.Name = d.repo

\* the tags of a table of two tags and a digest were listed
C13_Witness ==
    \E p \in Procs :
        /\ TagsDone(p)
        /\ req[p].last = <<>>
        /\ req[p].n = <<>>
        /\ resp[p].kind = "ok"
        /\ resp[p].Body.Tags = <<T_a, T_b>>
        /\ D_d \in DOMAIN manifests[Decompose(req[p].Path).repo]

\* the sorted tags of a table that the cursor last lets through, and their cap
Filtered(c, last) ==
    LET sorted == SortStrings({k \in DOMAIN c : ~Contains(k, S_sha256)})
    IN  IF last = <<>> THEN sorted ELSE Greater(sorted, last)
Capped(tags, n) == IF n < Len(tags) THEN SubSeq(tags, 1, n) ELSE tags

\* C14: a tags GET whose n parses as an integer, whose Preparer succeeded and
\* whose repository is in the store answers 200 with the sorted, cursor-filtered
\* tags cut to their first n entries when n is less than their number, and with
\* all of them otherwise; no entry is added
C14_LimitCaps ==
    \A p \in Procs :
        LET d == Decompose(req[p].Path)
        IN  (/\ TagsDone(p)
             /\ req[p].n # <<>>
             /\ Atoi(req[p].n).err = "nil"
             /\ Len(d.parts) >= 2
             /\ AllSucceeded(p)
             /\ HasRepo(manifests, d.repo)) =>
              /\ resp[p].kind = "ok"
              /\ resp[p].Body.Tags
                    = Capped(Filtered(manifests[d.repo], req[p].last), Atoi(req[p].n).val)

Min(a, b) == IF a < b THEN a ELSE b
Max(a, b) == IF a < b THEN b ELSE a

\* the catalog response of p lists k names, all distinct and all keys of the
\* store, and its request invoked no Preparer and left the store as it was
CatalogAnswers(p, k) ==
    LET repos == resp[p].Body.Repos
    IN  /\ resp[p].kind = "ok"
        /\ resp[p].Status = 200
        /\ Len(repos) = k
        /\ \A i, j \in 1..Len(repos) : i # j => repos[i] # repos[j]
        /\ \A i \in 1..Len(repos) : repos[i] \in DOMAIN manifests
        /\ calls[p] = 0
        /\ ~mutated[p]
        /\ manifests = store0[p]

\* the claim as stated. C15: a catalog GET whose n parses lists exactly
\* min(n, number of repositories) names, and one without n lists every repository
\* up to 10000; the names are distinct keys of the store, no Preparer is invoked
\* and the store is unchanged
C15_CatalogCapStated ==
    \A p \in Procs :
        CatalogDone(p) =>
            /\ req[p].n = <<>> => CatalogAnswers(p, Min(DefaultN, Cardinality(DOMAIN manifests)))
            /\ (req[p].n # <<>> /\ Atoi(req[p].n).err = "nil") =>
                  CatalogAnswers(p, Min(Atoi(req[p].n).val, Cardinality(DOMAIN manifests)))

\* C15: a catalog GET whose n parses lists exactly min(max(n, 0), number of
\* repositories) names (none for a negative n), and one without n lists every
\* repository up to 10000; the names are distinct keys of the store, no Preparer
\* is invoked and the store is unchanged
C15_CatalogCap ==
    \A p \in Procs :
        CatalogDone(p) =>
            /\ req[p].n = <<>> => CatalogAnswers(p, Min(DefaultN, Cardinality(DOMAIN manifests)))
            /\ (req[p].n # <<>> /\ Atoi(req[p].n).err = "nil") =>
                  CatalogAnswers(p, Min(Max(Atoi(req[p].n).val, 0), Cardinality(DOMAIN manifests)))

\* the catalog of two repositories was cut to one name by n=1
C15_Witness ==
    \E p \in Procs :
        /\ CatalogDone(p)
        /\ req[p].n = <<"1">>
        /\ Cardinality(DOMAIN manifests) = 2
        /\ resp[p].kind = "ok"
        /\ Len(resp[p].Body.Repos) = 1

\* C16: in every 200 manifest response the Docker-Content-Digest is "sha256:"
\* followed by the hex SHA-256 of the stored blob, and Content-Type and
\* Content-Length (and the body of a GET) are those of the same stored record;
\* two 200 responses for the same stored manifest carry the same digest
C16_DigestConsistent ==
    /\ \A p \in Procs :
          LET d == Decompose(req[p].Path)
          IN  (ManifestDone(p) /\ resp[p].kind = "ok") =>
                /\ HasRef(manifests, d.repo, d.target)
                /\ LET ma == manifests[d.repo][d.target]
                   IN  /\ resp[p].Status = 200
                       /\ resp[p].Digest = <<S_sha256, <<"hex", <<"Sum256", ma.Blob>>>>>>
                       /\ resp[p].ContentType = ma.ContentType
                       /\ resp[p].ContentLength = Len(ma.Blob)
                       /\ req[p].Method = "GET" => resp[p].Body = ma.Blob
    /\ \A p, q \in Procs :
          (/\ ManifestDone(p) /\ resp[p].kind = "ok"
           /\ ManifestDone(q) /\ resp[q].kind = "ok"
           /\ req[p].Path = req[q].Path) => resp[p].Digest = resp[q].Digest

\* a GET and a HEAD of the same stored manifest of two bytes were both answered
C16_Witness ==
    \E p, q \in Procs :
        /\ ManifestDone(p) /\ req[p].Method = "GET" /\ resp[p].kind = "ok"
        /\ ManifestDone(q) /\ req[q].Method = "HEAD" /\ resp[q].kind = "ok"
        /\ req[p].Path = req[q].Path
        /\ resp[p].ContentLength = 2
        /\ resp[q].Digest = resp[p].Digest

C17_WitnessAbsent ==
    \E p \in Procs :
        /\ TagsDone(p)
        /\ calls[p] = 1
        /\ mutated[p]
        /\ ~HasRepo(manifests, Decompose(req[p].Path).repo)
        /\ resp[p] = ErrResp(NotFound)

\* C18: the lock is free whenever no request is in progress, whichever way the
\* requests ended (200, INVALID PARAMS, NOT FOUND, BAD_REQUEST, a propagated
\* error, a panic inside the critical section); and under a fair scheduler with
\* a Preparer that returns, every request that starts eventually completes
C18_LockReleased ==
    /\ []((\A p \in Procs : pc[p] \in {"idle", "done"}) => lock = 0)
    /\ \A p \in Procs : (pc[p] \notin {"idle", "done"}) ~> (pc[p] = "done")

\* a request that panicked inside the critical section is done, another one is
\* done with an error, and the lock is free
C18_Witness ==
    \E p, q \in Procs :
        /\ pc[p] = "done" /\ resp[p] = PanicResp
        /\ pc[q] = "done" /\ resp[q].kind = "error"
        /\ \A w \in Procs : pc[w] \in {"idle", "done"}
        /\ lock = 0

\* C19: every request ends with a 200 response written or a regError returned,
\* whatever its path, method, last and n and whatever the store holds; no
\* request ends in an index or slice bound out of range
C19_AlwaysResponse ==
    \A p \in Procs :
        pc[p] = "done" =>
            \/ resp[p].kind = "ok" /\ resp[p].Status = 200
            \/ resp[p].kind = "error" /\ resp[p].err # NoErr

\* the number of handlers the classifier accepts a path for
Accepting(path) ==
    Cardinality({h \in Handlers : \/ h = "handle" /\ isManifest(path)
                                  \/ h = "handleTags" /\ isTags(path)
                                  \/ h = "handleCatalog" /\ isCatalog(path)})

\* each predicate is true of a path exactly when the segments are as documented
ClassifiedAsDocumented(path) ==
    LET segs == Elems(path)
        k    == Len(segs)
    IN  /\ isManifest(path) <=> (k >= 4 /\ segs[k - 1] = S_manifests)
        /\ isTags(path) <=> (k >= 4 /\ segs[k - 1] = S_tags)
        /\ isCatalog(path) <=> (k >= 2 /\ segs[k] = S_catalog)

\* the claim as stated. C20: for every request path (looked at when the request
\* is dispatched) at most one of isManifest, isTags and isCatalog is true, so
\* that a path is dispatched to one handler at most; each predicate is true
\* exactly when the segments are as documented
C20_ClassifierUnambiguousStated ==
    \A p \in Procs :
        pc[p] \in Handlers =>
            /\ Accepting(req[p].Path) <= 1
            /\ ClassifiedAsDocumented(req[p].Path)

\* C20: for every request path (looked at when the request is dispatched) at
\* most one of isManifest and isTags is true,
\* and isCatalog is true together with one of them exactly when the path has
\* four segments or more, the last is "_catalog" and the second-to-last is
\* "manifests" or "tags"; at most one of the three is true of every other path;
\* each predicate is true exactly when the segments are as documented
C20_ClassifierOverlap ==
    \A p \in Procs :
        pc[p] \in Handlers =>
            LET path == req[p].Path
                segs == Elems(path)
                k    == Len(segs)
            IN  /\ ~(isManifest(path) /\ isTags(path))
                /\ Accepting(path) <= 2
                /\ Accepting(path) = 2 <=>
                      (k >= 4 /\ segs[k] = S_catalog /\ segs[k - 1] \in {S_manifests, S_tags})
                /\ ClassifiedAsDocumented(path)

\* a path below a manifests segment that ends in _catalog was answered by the
\* catalog handler
C20_Witness ==
    \E p \in Procs :
        /\ pc[p] = "done"
        /\ req[p].Path = ManifestPath(R_s, S_catalog)
        /\ isManifest(req[p].Path)
        /\ req[p].handler = "handleCatalog"
        /\ resp[p].kind = "ok"

====
